---- MODULE Spec2Model ----
(***************************************************************************)
(* A model of the molt crawler (crawler.py), of its quality pass           *)
(* (quality.py) and of the removal of duplicates (dedupe.py).              *)
(*                                                                         *)
(* Strings.  A Python string is modelled as a sequence of text chunks, the *)
(* string being the concatenation of its chunks: <<"www.", "molt.com">> is *)
(* "www.molt.com".  The chunks are chosen so that every test the code makes*)
(* on a string (lower(), startswith('www.'), "p in s", "'://' in url",     *)
(* urlparse's split at ':' and '/', len()) is decided chunk by chunk.      *)
(* LowerTok, ChunkLen and Subs are the tables of a chunk's lower-case form,*)
(* of its length and of the patterns of the code's phrase lists that occur *)
(* in it as substrings.                                                    *)
(***************************************************************************)
EXTENDS Integers, Sequences, FiniteSets, TLC

VARIABLES
    \* one call of a function of the programs
    pIn,          \* the function called and its arguments
    pOut,         \* its result, once pDone
    pDone,        \* whether the call has returned
    \* Crawler.fetch under load
    fetchCalls,   \* the calls of fetch made so far
    semWaiters,   \* the calls suspended in sem.acquire
    semWoken,     \* the calls handed the semaphore and not yet resumed
    \* one run of Crawler.run
    leadFile,     \* excluded_sites.json
    leadQueue,    \* the lead sources run has still to scrape
    lead,         \* the lead source being scraped and where its scrape is
    phase,        \* where run is
    raised,       \* the exception that left run, "" when none
    tasks,        \* the gathered crawl and check_one tasks
    visited,      \* Crawler.visited
    sites,        \* Database.data["sites"]
    discoveries,  \* Crawler.discoveries
    clock,        \* datetime.now()
    gets,         \* per domain, the GET requests issued for it
    sem,          \* the value of Crawler.sem
    inflight,     \* the calls of fetch inside "async with self.sem"
    dns,          \* the resolutions of batch_dns_check and their results
    saved,        \* whether Database.save has written the registry
    savedSites,   \* the sites it wrote
    \* the maintenance commands of quality.py and dedupe.py
    portalsFile,  \* portals.json
    auditFile,    \* audit_log.json
    qOp           \* the last command run and how it ended

pureVars == <<pIn, pOut, pDone>>
semVars == <<fetchCalls, semWaiters, semWoken>>
runVars == <<leadFile, leadQueue, lead, phase, raised, tasks, visited, sites,
             discoveries, clock, gets, dns, saved, savedSites>>
\* the state of a run apart from the exclusion file and what is loaded of it
crawlVars == <<lead, phase, raised, tasks, visited, sites, discoveries, clock,
               gets, dns, saved, savedSites>>
qualVars == <<portalsFile, auditFile, qOp>>

vars == <<pureVars, semVars, runVars, qualVars, sem, inflight>>

(* ------------------------------ bounds -------------------------------- *)

\* the longest URL (in chunks) handed to normalize
MaxUrlLen == 4

\* the calls of fetch made by the tasks of one run
MaxFetchCalls == 502

\* the entries audit_log.json grows to
MaxAuditLog == 1

(* --------------------------- string tables ---------------------------- *)

LowerTok(t) ==
    CASE t = "WWW." -> "www."
      [] t = "MOLT.COM" -> "molt.com"
      [] t = "Example.org" -> "example.org"
      [] t = "Moltbook" -> "moltbook"
      [] t = "Crab Shack" -> "crab shack"
      [] t = "AI agent marketplace" -> "ai agent marketplace"
      [] t = "Social network for molt agents" -> "social network for molt agents"
      [] t = "We sell live crabs, shipped nationwide" -> "we sell live crabs, shipped nationwide"
      [] t = "Discovered at" -> "discovered at"
      [] t = "A directory of many fine things" -> "a directory of many fine things"
      [] t = "Coming Soon" -> "coming soon"
      [] t = "Domain For Sale" -> "domain for sale"
      [] t = "GoDaddy" -> "godaddy"
      [] t = "Claw Directory" -> "claw directory"
      [] OTHER -> t

ChunkLen(t) ==
    CASE t = "https" -> 5
      [] t = "://" -> 3
      [] t = "/p" -> 2
      [] t = ":" -> 1
      [] t = "www." -> 4
      [] t = "WWW." -> 4
      [] t = "mailto:" -> 7
      [] t = "molt.com" -> 8
      [] t = "MOLT.COM" -> 8
      [] t = "moltx.com" -> 9
      [] t = "x.com" -> 5
      [] t = "claw.io" -> 7
      [] t = "example.org" -> 11
      [] t = "github.com" -> 10
      [] t = "moltbook.com" -> 12
      [] t = "crabs.com" -> 9
      [] t = "agenthub.io" -> 11
      [] t = "moltbook.io" -> 11
      [] t = "moltbook.town" -> 13
      [] t = "Example.org" -> 11
      [] t = " " -> 1
      [] t = "Moltbook" -> 8
      [] t = "Crab Shack" -> 10
      [] t = "AI agent marketplace" -> 20
      [] t = "Social network for molt agents" -> 30
      [] t = "We sell live crabs, shipped nationwide" -> 38
      [] t = "Discovered at" -> 13
      [] t = "nice generic site" -> 17
      [] t = "A directory of many fine things" -> 31
      [] t = "Coming Soon" -> 11
      [] t = "do not use" -> 10
      [] t = "Domain For Sale" -> 15
      [] t = "parked" -> 6
      [] t = "GoDaddy" -> 7
      [] t = "welcome" -> 7
      [] t = "link" -> 4
      [] t = "lead:" -> 5
      [] t = "bruteforce" -> 10
      [] t = "crawl" -> 5
      [] t = "Claw Directory" -> 14
      [] t = "moltbook" -> 8
      [] t = "crab shack" -> 10
      [] t = "ai agent marketplace" -> 20
      [] t = "social network for molt agents" -> 30
      [] t = "we sell live crabs, shipped nationwide" -> 38
      [] t = "discovered at" -> 13
      [] t = "a directory of many fine things" -> 31
      [] t = "coming soon" -> 11
      [] t = "domain for sale" -> 15
      [] t = "godaddy" -> 7
      [] t = "claw directory" -> 14
      [] OTHER -> 0

Subs(t) ==
    CASE t = "molt.com" ->
           {"molt"}
      [] t = "moltx.com" ->
           {"molt", "x.com"}
      [] t = "x.com" ->
           {"x.com"}
      [] t = "claw.io" ->
           {"claw"}
      [] t = "github.com" ->
           {"github.com"}
      [] t = "moltbook.com" ->
           {"molt", "moltbook"}
      [] t = "crabs.com" ->
           {"crab"}
      [] t = "agenthub.io" ->
           {"agent"}
      [] t = "moltbook.io" ->
           {"molt", "moltbook"}
      [] t = "moltbook.town" ->
           {"molt", "moltbook"}
      [] t = "AI agent marketplace" ->
           {"agent", "agent marketplace"}
      [] t = "Social network for molt agents" ->
           {"agent", "molt"}
      [] t = "We sell live crabs, shipped nationwide" ->
           {"crab", "shipped nationwide"}
      [] t = "do not use" ->
           {"do not use"}
      [] t = "parked" ->
           {"parked"}
      [] t = "moltbook" ->
           {"molt", "moltbook"}
      [] t = "crab shack" ->
           {"crab"}
      [] t = "ai agent marketplace" ->
           {"agent", "agent marketplace", "ai agent"}
      [] t = "social network for molt agents" ->
           {"agent", "molt"}
      [] t = "we sell live crabs, shipped nationwide" ->
           {"crab", "shipped nationwide"}
      [] t = "coming soon" ->
           {"coming soon"}
      [] t = "domain for sale" ->
           {"domain for sale", "for sale"}
      [] t = "godaddy" ->
           {"godaddy"}
      [] t = "claw directory" ->
           {"claw"}
      [] OTHER -> {}

SplitTld(t) ==
    CASE t = "molt.com" -> <<"molt", ".com">>
      [] t = "moltx.com" -> <<"moltx", ".com">>
      [] t = "x.com" -> <<"x", ".com">>
      [] t = "claw.io" -> <<"claw", ".io">>
      [] t = "example.org" -> <<"example", ".org">>
      [] t = "github.com" -> <<"github", ".com">>
      [] t = "moltbook.com" -> <<"moltbook", ".com">>
      [] t = "crabs.com" -> <<"crabs", ".com">>
      [] t = "agenthub.io" -> <<"agenthub", ".io">>
      [] t = "moltbook.io" -> <<"moltbook", ".io">>
      [] t = "moltbook.town" -> <<"moltbook", ".town">>
      [] OTHER -> <<t, "">>

(* ---------------- the phrase lists of the two programs ---------------- *)

RELEVANCE_KEYWORDS ==
    ("molt" :> 3) @@ ("claw" :> 3) @@ ("openclaw" :> 3) @@ ("lobster" :> 3) @@ ("moltbook" :> 3) @@ ("crustacean" :> 3) @@ ("moltverse" :> 3) @@ ("agent" :> 2) @@ ("ai agent" :> 2) @@ ("autonomous" :> 2) @@ ("agentic" :> 2) @@ ("llm" :> 2) @@ ("claude" :> 2) @@ ("for agents" :> 2) @@ ("for ai" :> 2) @@ ("agent economy" :> 2) @@ ("agent social" :> 2) @@ ("agent marketplace" :> 2)

BAD_parked_page ==
    {"bald geht's los", "coming soon", "domain for sale", "future home of", "godaddy", "hostinger dns system", "launching soon", "parked domain", "this domain is for sale", "under construction", "we're getting things ready", "wix thunderbolt", "wix-hosted"}

BAD_for_humans ==
    {"ai agent directory", "automate your workflows", "browse ai agents", "build chatbots", "business automation platform", "chatbot builder", "conversational ai platform built for", "create chatbots", "curated directory of ai agents", "discover ai agents", "find the right ai agent", "no-code automation platform", "platform built for developers", "workflow automation platform"}

BAD_wrong_industry ==
    {"actor resource", "agents who sell", "annual report tracking", "arcade entertainment", "arcade games", "au optronics", "automotive display", "claw arcade", "claw machine arcade", "cleaning services", "clothing brand", "corporations, llcs", "display panels", "display technology", "electric fencing", "excavator", "fashion retail", "hard-shell crabs", "home buying", "insurance agent", "life insurance", "limpieza", "mail-order crabs", "maintenance company", "medicare", "micro led", "party packages", "pool maintenance", "poultry supplies", "property listing", "real estate", "realtors", "recruiting", "registered agent for", "registered agent service", "seafood restaurant", "shipped nationwide", "stone crab", "talent agencies", "travel agent training", "travel incentives", "travel professionals", "waterfront restaurant", "window cleaning"}

BAD_generic_platform ==
    {"branded short links", "chatbot directory", "curated content from", "development news", "discord bots", "family history", "genealogy", "jstack", "link management platform", "link shortening", "open source chatbot", "polymarket", "prediction market", "surname research", "tech news aggregation", "telegram bot builder", "url shortener", "whatsapp business"}

BAD_malicious ==
    {"compromised", "malware", "phishing", "scam"}

RED_FLAGS ==
    {"coming soon", "compromised", "database vulnerability", "do not use", "domain for sale", "future home of", "hostinger dns system", "malware", "parked domain", "phishing", "scam", "under construction"}

PARKED_INDICATORS ==
    {"afternic", "brandbucket", "buy this domain", "dan.com", "domain available", "domain for sale", "domain is for sale", "domainmarket", "for sale", "godaddy", "hugedomains", "inquire about", "make an offer", "namecheap", "parked", "purchase this domain", "sedo.com", "sponsored listings", "squadhelp"}

KEYWORDS ==
    {"agent", "agentic", "autonomous", "bot", "claw", "crab", "crustacean", "exo", "lobster", "molt", "shell"}

SKIP ==
    {"apple.com", "cloudflare.com", "discord.com", "facebook.com", "github.com", "google.com", "googleapis.com", "gstatic.com", "instagram.com", "jsdelivr.net", "linkedin.com", "medium.com", "microsoft.com", "netlify.app", "notion.so", "reddit.com", "schema.org", "substack.com", "tailwindcss.com", "telegram.org", "twitter.com", "unpkg.com", "vercel.app", "w3.org", "x.com", "youtube.com"}

TLD_PRIORITY ==
    (".com" :> 100) @@ (".io" :> 90) @@ (".ai" :> 85) @@ (".app" :> 80) @@ (".dev" :> 75) @@ (".org" :> 70) @@ (".net" :> 65) @@ (".co" :> 60) @@ (".xyz" :> 50) @@ (".live" :> 45) @@ (".bot" :> 40) @@ (".space" :> 35) @@ (".town" :> 30) @@ (".gg" :> 25)

KNOWN_DIFFERENT ==
    {<<"clawcity.app", "clawcity.xyz">>,
     <<"molt.bot", "molt.church">>,
     <<"moltbook.com", "molt.church">>,
     <<"moltbook.com", "moltbook.co">>,
     <<"moltbook.com", "moltbook.town">>,
     <<"moltbook.town", "moltbook.co">>}

(* ------------------------- string operations -------------------------- *)

\* s.lower()
LowerStr(s) == [i \in 1..Len(s) |-> LowerTok(s[i])]

\* len(s)
RECURSIVE StrLen(_)
StrLen(s) == IF s = <<>> THEN 0 ELSE ChunkLen(Head(s)) + StrLen(Tail(s))

\* p in s, the substring test, for a pattern p of the phrase lists
Contains(p, s) == \E i \in 1..Len(s) : p \in Subs(s[i])

\* s.replace('www.', ''): every occurrence goes
ReplaceWww(s) == SelectSeq(s, LAMBDA t : t # "www.")

\* s.strip()
RECURSIVE LStrip(_)
LStrip(s) == IF s # <<>> /\ Head(s) = " " THEN LStrip(Tail(s)) ELSE s
RECURSIVE RStrip(_)
RStrip(s) ==
    IF s # <<>> /\ s[Len(s)] = " " THEN RStrip(SubSeq(s, 1, Len(s) - 1)) ELSE s
Strip(s) == RStrip(LStrip(s))

Sp == <<" ">>

\* all strings of at most n chunks over the alphabet A
RECURSIVE StrsUpTo(_, _)
StrsUpTo(A, n) ==
    IF n = 0 THEN {<<>>}
    ELSE LET S == StrsUpTo(A, n - 1)
         IN  S \cup {Append(s, a) : s \in {x \in S : Len(x) = n - 1}, a \in A}

(* ----------------------- crawler.py: normalize ------------------------ *)

\* the chunks a URL is written with: a scheme name, "://", "www." in both
\* cases, a host name in both cases, a path and the port separator
UrlChunks == {"https", "://", "www.", "WWW.", "molt.com", "MOLT.COM", "/p", ":"}

\* '://' in url
HasSchemeSep(url) == \E i \in 1..Len(url) : url[i] = "://"

\* urlsplit: the characters allowed in a scheme (letters, digits, + - .)
SchemeChars(t) == t \notin {"://", ":", "/p"}

\* url.find(':'), as a chunk index, 0 when there is none
FirstColon(url) ==
    IF \E i \in 1..Len(url) : url[i] \in {"://", ":"}
    THEN CHOOSE i \in 1..Len(url) :
            /\ url[i] \in {"://", ":"}
            /\ \A j \in 1..(i - 1) : url[j] \notin {"://", ":"}
    ELSE 0

\* _splitnetloc: the text after '//' up to the first '/', '?' or '#'; of a
\* later "://" the ':' comes before the '/' and stays in the netloc
RECURSIVE SplitNetloc(_, _)
SplitNetloc(url, i) ==
    IF i > Len(url) \/ url[i] = "/p" THEN <<>>
    ELSE IF url[i] = "://" THEN <<":">>
    ELSE <<url[i]>> \o SplitNetloc(url, i + 1)

\* urlparse(url).netloc: the scheme is split off at the first ':' when the
\* text before it is not empty and holds scheme characters only; a netloc is
\* read only when what follows the scheme's ':' starts with '//'
UrlNetloc(url) ==
    LET i == FirstColon(url)
    IN  IF i > 1 /\ (\A j \in 1..(i - 1) : SchemeChars(url[j])) /\ url[i] = "://"
        THEN SplitNetloc(url, i + 1)
        ELSE <<>>

normalize(url) ==
    LET p == UrlNetloc(IF HasSchemeSep(url) THEN url ELSE <<"https", "://">> \o url)
        d == LowerStr(p)
    IN  IF d # <<>> /\ d[1] = "www." THEN Tail(d) ELSE d

(* ------------------------- crawler.py: fetch -------------------------- *)

None == "None"

\* what one HTTP GET can come to: a response with a status (whose body is
\* then read, or whose read fails), a timeout or a connection error
HttpStatuses == {100, 199, 200, 201, 204, 299, 300, 301, 404, 499, 500, 503, 599}
Outcomes(body) ==
    [kind : {"response"}, status : HttpStatuses, body : {body}, readOk : BOOLEAN]
    \cup [kind : {"timeout", "connection_error"}, status : {0}, body : {body},
          readOk : {FALSE}]

\* the value fetch returns for an outcome of session.get: (text, alive)
FetchResult_bug(o) ==
    IF o.kind = "response"
    THEN IF o.status = 200
         THEN IF o.readOk THEN <<o.body, TRUE>> ELSE <<None, FALSE>>
         ELSE <<None, o.status <= 500>>
    ELSE <<None, FALSE>>

FetchResult(o) ==
    IF o.kind = "response"
    THEN IF o.status = 200
         THEN IF o.readOk THEN <<o.body, TRUE>> ELSE <<None, FALSE>>
         ELSE <<None, o.status < 500>>
    ELSE <<None, FALSE>>

(* ----------------------- crawler.py: is_parked ------------------------ *)

\* An HTML body is a record: len is len(html), text the phrases that occur
\* in it (a string), bodyChars and bodyWords measure the text outside
\* <script>, <style> and <noscript>, scriptChars and scriptWords the text
\* inside them, and parseOk tells whether BeautifulSoup parses the body.

\* sum(1 for p in PARKED_INDICATORS if p in html_lower)
ParkedCount(html) ==
    Cardinality({p \in PARKED_INDICATORS : Contains(p, LowerStr(html.text))})

\* soup.get_text() after every script, style and noscript tag is decomposed
VisibleText_bug(html) ==
    [chars |-> html.bodyChars + html.scriptChars,
     words |-> html.bodyWords + html.scriptWords]

VisibleText(html) == [chars |-> html.bodyChars, words |-> html.bodyWords]

is_parked(html) ==
    IF html.len < 500 THEN TRUE
    ELSE IF ParkedCount(html) >= 2 THEN TRUE
    ELSE IF html.parseOk
            /\ (VisibleText(html).chars < 200 \/ VisibleText(html).words < 30)
         THEN TRUE
    ELSE ParkedCount(html) >= 1 /\ html.len < 5000

(* ------------------------ quality.py: scoring ------------------------- *)

AUTO_DETECT_BAD ==
    BAD_parked_page \cup BAD_for_humans \cup BAD_wrong_industry
        \cup BAD_generic_platform \cup BAD_malicious

\* load_aggregator_featured: the featured domains of every aggregator of the
\* exclusion file, lower-cased and with 'www.' removed
load_aggregator_featured(aggregators) ==
    {ReplaceWww(LowerStr(d)) : d \in aggregators}

\* is_bad of auto_detect_bad_site (the category and the reason are not used
\* by its caller)
auto_detect_bad_site(domain, title, description) ==
    LET text == LowerStr(title \o Sp \o description)
    IN  \/ \E p \in AUTO_DETECT_BAD : Contains(p, text)
        \/ Strip(LowerStr(description)) = Strip(LowerStr(domain))
        \/ /\ StrLen(description) < 15
           /\ ~Contains("molt", LowerStr(domain))
           /\ ~Contains("claw", LowerStr(domain))

\* excluded: the keys of the exclusion file's 'excluded' object;
\* aggregators: the featured domains listed in its 'aggregators' object
is_false_positive(domain, title, description, excluded, aggregators) ==
    LET domain_lower == ReplaceWww(LowerStr(domain))
    IN  \/ domain_lower \in excluded
        \/ domain_lower \in load_aggregator_featured(aggregators)
        \/ (domain_lower # <<>> /\ domain_lower[1] = "mailto:")
        \/ auto_detect_bad_site(domain_lower, title, description)

RECURSIVE SumWeights(_)
SumWeights(ks) ==
    IF ks = {} THEN 0
    ELSE LET k == CHOOSE x \in ks : TRUE
         IN  RELEVANCE_KEYWORDS[k] * 10 + SumWeights(ks \ {k})

Max(a, b) == IF a >= b THEN a ELSE b
Min(a, b) == IF a <= b THEN a ELSE b

\* a penalty taken off the running score
Penalty_bug(score, n) == score - n

Penalty(score, n) == Max(0, score - n)

\* the steps of calculate_relevance after the false-positive test
RelevanceScore(domain, title, description) ==
    LET text == LowerStr(domain \o Sp \o title \o Sp \o description)
        matches == {k \in DOMAIN RELEVANCE_KEYWORDS : Contains(k, text)}
        domain_lower == LowerStr(domain)
        is_molt_domain ==
            \E k \in {"molt", "claw", "lobster", "craber"} : Contains(k, domain_lower)
        s0 == SumWeights(matches)
        s1 == IF is_molt_domain THEN s0 + 30 ELSE s0
        s2 == IF Contains("agent", domain_lower) /\ ~is_molt_domain
              THEN s1 + 10 ELSE s1
        s3 == IF description = <<"Discovered at", " ">> \o domain
                   \/ description = domain
              THEN Penalty(s2, IF is_molt_domain THEN 10 ELSE 20) ELSE s2
        s4 == IF Strip(LowerStr(description)) = Strip(domain_lower)
              THEN Penalty(s3, IF is_molt_domain THEN 15 ELSE 30) ELSE s3
        s5 == IF StrLen(description) < 20
              THEN Penalty(s4, IF is_molt_domain THEN 5 ELSE 10) ELSE s4
    IN  <<Min(100, s5), matches>>

calculate_relevance_bug(domain, title, description, excluded, aggregators) ==
    RelevanceScore(domain, title, description)

calculate_relevance(domain, title, description, excluded, aggregators) ==
    IF is_false_positive(domain, title, description, excluded, aggregators)
    THEN <<0, {"FALSE_POSITIVE"}>>
    ELSE RelevanceScore(domain, title, description)

calculate_trust(domain, title, description, notes, excluded, aggregators) ==
    LET text == LowerStr(domain \o Sp \o title \o Sp \o description \o Sp \o notes)
        rel == calculate_relevance(domain, title, description, excluded, aggregators)
    IN  IF is_false_positive(domain, title, description, excluded, aggregators)
        THEN "untrusted"
        ELSE IF \E flag \in RED_FLAGS : Contains(flag, text) THEN "untrusted"
        ELSE IF "FALSE_POSITIVE" \in rel[2] THEN "untrusted"
        ELSE IF rel[1] >= 60 THEN "high"
        ELSE IF rel[1] >= 30 THEN "medium"
        ELSE "low"

(* --------------------- crawler.py: the crawled web -------------------- *)

\* the capacity of Crawler.sem
SEM_LIMIT == 500

\* None, False and True as the registry stores them in has_content
\* (check_one stores the value of "html and not is_parked(html)")
PyBool(b) == IF b THEN "True" ELSE "False"
Truthy(v) == v = "True"

Https == <<"https", "://">>

\* SEED_URLS, two of them
SEED_URLS == {Https \o <<"claw.io">>, Https \o <<"moltbook.com">>}

\* BASES, SUFFIXES and TLDS, cut down to two candidates, and the string
\* f"{base}{suffix}.{tld}" of each
BASES == {"molt"}
SUFFIXES == {"", "x"}
TLDS == {"com"}
FormatCandidate(base, suffix, tld) ==
    CASE base = "molt" /\ suffix = "" /\ tld = "com" -> <<"molt.com">>
      [] base = "molt" /\ suffix = "x" /\ tld = "com" -> <<"moltx.com">>

\* The pages of the web, by host name.  Each is an HTML body as is_parked
\* reads it, with its <title>, the href of its anchors and the absolute URLs
\* written in its text outside anchors.
ContentPage(title, hrefs, urls) ==
    [len |-> 6000, text |-> <<"welcome">>, bodyChars |-> 900, bodyWords |-> 150,
     scriptChars |-> 300, scriptWords |-> 40, parseOk |-> TRUE,
     title |-> title, hrefs |-> hrefs, urls |-> urls]

ParkedPage ==
    [len |-> 4999, text |-> <<"parked">>, bodyChars |-> 900, bodyWords |-> 150,
     scriptChars |-> 0, scriptWords |-> 0, parseOk |-> TRUE,
     title |-> <<>>, hrefs |-> {}, urls |-> {}]

Web(host) ==
    CASE host = "claw.io" ->
            ContentPage(<<"Claw Directory">>,
                        {Https \o <<"WWW.", "molt.com", "/p">>, <<"/p">>},
                        {Https \o <<"github.com">>})
      [] host = "moltbook.com" ->
            ContentPage(<<"Moltbook">>,
                        {Https \o <<"molt.com">>, Https \o <<"moltx.com">>}, {})
      [] host = "molt.com" ->
            ContentPage(<<>>, {Https \o <<"moltx.com">>, Https \o <<"crabs.com">>}, {})
      [] OTHER -> ParkedPage

\* the host a URL is served by: "www.molt.com" is the site molt.com
HostOf(url) ==
    LET d == ReplaceWww(normalize(url))
    IN  IF d = <<>> THEN "" ELSE d[1]

\* the outcomes of a GET of url: the page with status 200, a 404, a timeout
GetOutcomes(url) ==
    {[kind |-> "response", status |-> 200, body |-> HostOf(url), readOk |-> TRUE],
     [kind |-> "response", status |-> 404, body |-> HostOf(url), readOk |-> TRUE],
     [kind |-> "timeout", status |-> 0, body |-> HostOf(url), readOk |-> FALSE]}

(* ---------------- crawler.py: the functions of Crawler ---------------- *)

\* get_title: the text of <title>, "" when there is none
get_title(html) == html.title

\* urljoin(base_url, href): an absolute href stands; a path is put after the
\* scheme and the netloc of the base
urljoin(base_url, href) ==
    IF HasSchemeSep(href) THEN href
    ELSE SubSeq(base_url, 1, 2) \o UrlNetloc(base_url) \o href

\* one match of https?://([a-zA-Z0-9][-a-zA-Z0-9.]*\.[a-zA-Z]{2,}) in a URL
\* written in the page: the host characters after the scheme, as written
RECURSIVE HostRun(_, _)
HostRun(url, i) ==
    IF i > Len(url) \/ url[i] \in {"://", ":", "/p"} THEN <<>>
    ELSE <<url[i]>> \o HostRun(url, i + 1)
RegexMatches(url) ==
    Len(url) >= 3 /\ url[1] = "https" /\ url[2] = "://" /\ HostRun(url, 3) # <<>>

\* the domain added by the raw-text scan: m.group(1).lower()
ScannedDomain(url) == LowerStr(HostRun(url, 3))

extract_domains(html, base_url) ==
    IF ~html.parseOk THEN {}
    ELSE ({normalize(urljoin(base_url, href)) : href \in html.hrefs} \ {<<>>})
         \cup {ScannedDomain(u) : u \in {x \in html.hrefs \cup html.urls :
                                              RegexMatches(x)}}

is_interesting(domain) ==
    LET d == LowerStr(domain)
    IN  IF \E s \in SKIP : Contains(s, d) THEN FALSE
        ELSE \E k \in KEYWORDS : Contains(k, d)

(* ------------------- crawler.py: Database and run --------------------- *)

\* Database.add on the sites map; now is datetime.now()
DatabaseAdd_bug(s, domain, url, source, alive, has_content, title, now) ==
    (domain :> [url |-> url, source |-> source, alive |-> alive,
                has_content |-> has_content, title |-> title,
                first_seen |-> now]) @@ s

DatabaseAdd(s, domain, url, source, alive, has_content, title, now) ==
    IF domain \notin DOMAIN s
    THEN s @@ (domain :> [url |-> url, source |-> source, alive |-> alive,
                          has_content |-> has_content, title |-> title,
                          first_seen |-> now])
    ELSE [s EXCEPT ![domain] =
            [@ EXCEPT !.alive = alive, !.has_content = has_content,
                      !.title = IF title # <<>> THEN title ELSE @]]

\* the exclusion file as load_lead_sources reads it: whether it exists,
\* whether it parses to an object, and its 'lead_sources' entries in order;
\* an entry is name -> info, info a dict (with or without 'url') or not
LeadEntry(name, url, isDict) == [name |-> name, url |-> url, isDict |-> isDict]
LeadFiles ==
    {[exists |-> FALSE, parses |-> FALSE, lead_sources |-> <<>>],
     [exists |-> TRUE, parses |-> FALSE, lead_sources |-> <<>>],
     [exists |-> TRUE, parses |-> TRUE,
      lead_sources |-> <<LeadEntry("claw.io", Https \o <<"claw.io">>, TRUE)>>],
     [exists |-> TRUE, parses |-> TRUE,
      lead_sources |-> <<LeadEntry("moltbook.com", <<>>, TRUE),
                         LeadEntry("claw.io", <<>>, FALSE)>>]}

load_lead_sources(file) ==
    IF file.exists /\ file.parses THEN file.lead_sources ELSE <<>>

\* the registry Database._load finds: none, or the one an earlier run saved
OldRegistries ==
    {<<>>,
     (<<"moltx.com">> :> [url |-> Https \o <<"moltx.com">>, source |-> <<"bruteforce">>,
                          alive |-> TRUE, has_content |-> "True",
                          title |-> <<"Moltbook">>, first_seen |-> 0]),
     (<<"molt.com">> :> [url |-> Https \o <<"molt.com">>, source |-> <<"link">>,
                         alive |-> TRUE, has_content |-> "False",
                         title |-> <<"Coming Soon">>, first_seen |-> 0])}

\* what a visit has observed: the alive of fetch, and the has_content and
\* title computed from its html; NotSeen before the fetch has returned
Seen(alive, has_content, title) ==
    [alive |-> alive, has_content |-> has_content, title |-> title]
NotSeen == Seen(FALSE, "None", <<>>)

Task(kind, owner, url, domain, source) ==
    [kind |-> kind, owner |-> owner, url |-> url, domain |-> domain,
     source |-> source, pc |-> "start", added |-> FALSE, seen |-> NotSeen]

CheckTasks(owner, domains, source) ==
    {Task("check", owner, Https \o d, d, source) : d \in domains}

Finished(t) == t.pc \in {"done", "failed"}

\* await asyncio.gather(*tasks, return_exceptions=True) over the tasks of
\* owner: it returns once every task has returned or raised
GatherOutcome_bug(owner) ==
    LET ts == {t \in tasks : t.owner = owner}
    IN  IF \E t \in ts : t.pc = "failed" THEN "raised"
        ELSE IF \A t \in ts : Finished(t) THEN "returned" ELSE "pending"

GatherOutcome(owner) ==
    LET ts == {t \in tasks : t.owner = owner}
    IN  IF \A t \in ts : Finished(t) THEN "returned" ELSE "pending"

\* session.get is called for a URL of domain d, inside "async with self.sem"
IssueGet(d) ==
    /\ sem > 0
    /\ sem' = sem - 1
    /\ inflight' = inflight + 1
    /\ gets' = IF d \in DOMAIN gets THEN [gets EXCEPT ![d] = @ + 1]
               ELSE gets @@ (d :> 1)
\* the GET is over and the semaphore released
EndGet ==
    /\ sem' = sem + 1
    /\ inflight' = inflight - 1
    /\ UNCHANGED gets

Idle == [name |-> "", url |-> <<>>, pc |-> "idle"]

\* new_domains[:20]: the lists a slice of at most n of the set S can be
FirstN(S, n) ==
    {T \in SUBSET S : Cardinality(T) = Min(n, Cardinality(S))}

\* no function call under check
NoCall == pIn = [fn |-> "none"] /\ pOut = <<>> /\ pDone = FALSE
\* no call of fetch beyond those of the run's tasks
NoLoad == fetchCalls = 0 /\ semWaiters = 0 /\ semWoken = 0
\* no maintenance command
NoQuality ==
    /\ portalsFile = [exists |-> FALSE, parses |-> FALSE, portals |-> <<>>]
    /\ auditFile = [exists |-> FALSE, parses |-> FALSE, log |-> 0]
    /\ qOp = [op |-> "none", arg |-> <<>>, raised |-> ""]

Init ==
    /\ NoCall /\ NoLoad /\ NoQuality
    /\ leadFile \in LeadFiles
    /\ leadQueue = load_lead_sources(leadFile)
    /\ lead = Idle
    /\ phase = "phase0"
    /\ raised = ""
    /\ tasks = {}
    /\ visited = {}
    /\ sites \in OldRegistries
    /\ discoveries = {}
    /\ clock = 1
    /\ gets = <<>>
    /\ sem = SEM_LIMIT
    /\ inflight = 0
    /\ dns = <<>>
    /\ saved = FALSE
    /\ savedSites = <<>>

\* run, phase 0: the next lead source; info.get raises when info is no dict,
\* else deep_scrape_lead_source starts and fetches the URL
LeadBegin ==
    /\ phase = "phase0" /\ lead.pc = "idle" /\ leadQueue # <<>>
    /\ LET e == Head(leadQueue)
           url == IF e.url # <<>> THEN e.url ELSE Https \o <<e.name>>
       IN  IF ~e.isDict
           THEN /\ phase' = "aborted"
                /\ raised' = "AttributeError"
                /\ UNCHANGED <<lead, leadQueue, sem, inflight, gets>>
           ELSE /\ IssueGet(normalize(url))
                /\ lead' = [name |-> e.name, url |-> url, pc |-> "fetching"]
                /\ leadQueue' = Tail(leadQueue)
                /\ UNCHANGED <<phase, raised>>
    /\ UNCHANGED <<pureVars, semVars, qualVars, leadFile, tasks, visited, sites, discoveries, clock, dns,
                   saved, savedSites>>

\* deep_scrape_lead_source after its fetch
LeadResponse ==
    /\ phase = "phase0" /\ lead.pc = "fetching"
    /\ \E o \in GetOutcomes(lead.url) :
        LET r == FetchResult(o)
            domains == extract_domains(Web(r[1]), lead.url)
            new_leads == {d \in domains :
                            /\ d \notin visited
                            /\ d \notin {<<s>> : s \in SKIP}
                            /\ ~\E s \in SKIP : Contains(s, d)}
        IN  /\ EndGet
            /\ IF r[1] = None \/ new_leads = {}
               THEN lead' = Idle /\ UNCHANGED tasks
               ELSE /\ tasks' = tasks \cup CheckTasks(<<"lead", lead.name>>, new_leads,
                                                      <<"lead:", lead.name>>)
                    /\ lead' = [lead EXCEPT !.pc = "gather"]
    /\ UNCHANGED <<pureVars, semVars, qualVars, raised, leadFile, leadQueue, phase, visited, sites, discoveries, clock,
                   dns, saved, savedSites>>

\* batch_check_sites of the lead source returns
LeadGatherDone ==
    /\ phase = "phase0" /\ lead.pc = "gather"
    /\ GatherOutcome(<<"lead", lead.name>>) # "pending"
    /\ IF GatherOutcome(<<"lead", lead.name>>) = "raised"
       THEN phase' = "aborted" /\ raised' = "TaskError"
       ELSE UNCHANGED <<phase, raised>>
    /\ lead' = Idle
    /\ UNCHANGED <<pureVars, semVars, qualVars, leadFile, leadQueue, tasks, visited, sites, discoveries, clock,
                   gets, sem, inflight, dns, saved, savedSites>>

\* run, phase 1: one crawl task per seed, gathered
Phase1Begin ==
    /\ phase = "phase0" /\ lead.pc = "idle" /\ leadQueue = <<>>
    /\ phase' = "phase1"
    /\ tasks' = tasks \cup {Task("crawl", <<"run">>, u, normalize(u), <<"crawl">>) :
                              u \in SEED_URLS}
    /\ UNCHANGED <<pureVars, semVars, qualVars, raised, leadFile, leadQueue, lead, visited, sites, discoveries, clock,
                   gets, sem, inflight, dns, saved, savedSites>>

Update(t, new) == tasks' = (tasks \ {t}) \cup {new}

\* crawl up to its fetch: the visited test and insert, then the GET
CrawlStart(t) ==
    /\ t \in tasks /\ t.kind = "crawl" /\ t.pc = "start"
    /\ IF t.domain = <<>> \/ t.domain \in visited
       THEN /\ Update(t, [t EXCEPT !.pc = "done"])
            /\ UNCHANGED <<visited, gets, sem, inflight>>
       ELSE /\ visited' = visited \cup {t.domain}
            /\ IssueGet(t.domain)
            /\ Update(t, [t EXCEPT !.pc = "fetching"])
    /\ UNCHANGED <<pureVars, semVars, qualVars, raised, leadFile, leadQueue, lead, phase, sites, discoveries, clock,
                   dns, saved, savedSites>>

\* crawl after its fetch: classify, print, add to the registry, follow links.
\* printed tells whether the print of the status line succeeds; when it
\* raises the task ends there.
CrawlResponse(t) ==
    /\ t \in tasks /\ t.kind = "crawl" /\ t.pc = "fetching"
    /\ \E o \in GetOutcomes(t.url), printed \in BOOLEAN :
        LET r == FetchResult(o)
            html == Web(r[1])
            has_content == r[1] # None /\ ~is_parked(html)
            title == IF r[1] # None THEN get_title(html) ELSE <<>>
            is_new == t.domain \notin DOMAIN sites
            seen == Seen(r[2], PyBool(has_content), title)
            found == IF r[1] # None /\ has_content
                     THEN {d \in extract_domains(html, t.url) :
                              d \notin visited /\ is_interesting(d)}
                     ELSE {}
        IN  /\ EndGet
            /\ IF ~printed
               THEN /\ Update(t, [t EXCEPT !.pc = "failed", !.seen = seen])
                    /\ UNCHANGED <<sites, discoveries, clock>>
               ELSE /\ sites' = DatabaseAdd(sites, t.domain, t.url, <<"crawl">>, r[2],
                                            PyBool(has_content), title, clock)
                    /\ clock' = clock + 1
                    /\ discoveries' = IF is_new /\ has_content
                                      THEN discoveries \cup {t.domain}
                                      ELSE discoveries
                    /\ IF found = {}
                       THEN Update(t, [t EXCEPT !.pc = "done", !.added = TRUE,
                                                !.seen = seen])
                       ELSE \E follow \in FirstN(found, 20) :
                              tasks' = (tasks \ {t})
                                  \cup {[t EXCEPT !.pc = "gather", !.added = TRUE,
                                                  !.seen = seen]}
                                  \cup CheckTasks(<<"crawl">> \o t.url, follow, <<"link">>)
    /\ UNCHANGED <<pureVars, semVars, qualVars, raised, leadFile, leadQueue, lead, phase, visited, dns, saved, savedSites>>

\* batch_check_sites of a crawl returns
CrawlGatherDone(t) ==
    /\ t \in tasks /\ t.kind = "crawl" /\ t.pc = "gather"
    /\ GatherOutcome(<<"crawl">> \o t.url) # "pending"
    /\ Update(t, [t EXCEPT !.pc = IF GatherOutcome(<<"crawl">> \o t.url) = "raised"
                                  THEN "failed" ELSE "done"])
    /\ UNCHANGED <<pureVars, semVars, qualVars, raised, leadFile, leadQueue, lead, phase, visited, sites, discoveries,
                   clock, gets, sem, inflight, dns, saved, savedSites>>

\* check_one up to its fetch
CheckStart(t) ==
    /\ t \in tasks /\ t.kind = "check" /\ t.pc = "start"
    /\ IF t.domain \in visited
       THEN /\ Update(t, [t EXCEPT !.pc = "done"])
            /\ UNCHANGED <<visited, gets, sem, inflight>>
       ELSE /\ visited' = visited \cup {t.domain}
            /\ IssueGet(t.domain)
            /\ Update(t, [t EXCEPT !.pc = "fetching"])
    /\ UNCHANGED <<pureVars, semVars, qualVars, raised, leadFile, leadQueue, lead, phase, sites, discoveries, clock,
                   dns, saved, savedSites>>

\* check_one after its fetch
CheckResponse(t) ==
    /\ t \in tasks /\ t.kind = "check" /\ t.pc = "fetching"
    /\ \E o \in GetOutcomes(t.url) :
        LET r == FetchResult(o)
            has_content == IF r[1] = None THEN "None"
                           ELSE PyBool(~is_parked(Web(r[1])))
            title == IF r[1] # None THEN get_title(Web(r[1])) ELSE <<>>
            is_new == t.domain \notin DOMAIN sites
            seen == Seen(r[2], has_content, title)
        IN  /\ EndGet
            /\ IF ~r[2]
               THEN /\ Update(t, [t EXCEPT !.pc = "done", !.seen = seen])
                    /\ UNCHANGED <<sites, discoveries, clock>>
               ELSE /\ sites' = DatabaseAdd(sites, t.domain, t.url, t.source, TRUE,
                                            has_content, title, clock)
                    /\ clock' = clock + 1
                    /\ discoveries' = IF Truthy(has_content) /\ is_new
                                      THEN discoveries \cup {t.domain}
                                      ELSE discoveries
                    /\ Update(t, [t EXCEPT !.pc = "done", !.added = TRUE,
                                           !.seen = seen])
    /\ UNCHANGED <<pureVars, semVars, qualVars, raised, leadFile, leadQueue, lead, phase, visited, dns, saved, savedSites>>

\* the candidates of phase 2: every f"{base}{suffix}.{tld}" that is neither
\* in db.known() nor in self.visited
Candidates_bug(known, vis) ==
    {d \in {FormatCandidate(b, s, tld) : b \in BASES, s \in SUFFIXES, tld \in TLDS} :
        d \notin known}

Candidates(known, vis) ==
    {d \in {FormatCandidate(b, s, tld) : b \in BASES, s \in SUFFIXES, tld \in TLDS} :
        d \notin known /\ d \notin vis}

\* run, phase 2: the gather of the seed crawls returns, the candidates are
\* generated and batch_dns_check starts one resolution per candidate
Phase2Begin ==
    /\ phase = "phase1"
    /\ GatherOutcome(<<"run">>) # "pending"
    /\ LET candidates == Candidates(DOMAIN sites, visited)
       IN  IF GatherOutcome(<<"run">>) = "raised"
           THEN phase' = "aborted" /\ raised' = "TaskError" /\ UNCHANGED dns
           ELSE /\ phase' = "dns" /\ dns' = [d \in candidates |-> "pending"]
                /\ UNCHANGED raised
    /\ UNCHANGED <<pureVars, semVars, qualVars, leadFile, leadQueue, lead, tasks, visited, sites, discoveries,
                   clock, gets, sem, inflight, saved, savedSites>>

\* dns_check_sync in the thread pool: gethostbyname returns or raises
DnsResolve(d) ==
    /\ phase = "dns" /\ d \in DOMAIN dns /\ dns[d] = "pending"
    /\ \E r \in {"alive", "dead"} : dns' = [dns EXCEPT ![d] = r]
    /\ UNCHANGED <<pureVars, semVars, qualVars, raised, leadFile, leadQueue, lead, phase, tasks, visited, sites,
                   discoveries, clock, gets, sem, inflight, saved, savedSites>>

\* batch_dns_check returns the alive domains; batch_check_sites starts on them
DnsDone ==
    /\ phase = "dns"
    /\ \A d \in DOMAIN dns : dns[d] # "pending"
    /\ LET all_alive == {d \in DOMAIN dns : dns[d] = "alive"}
       IN  tasks' = tasks \cup CheckTasks(<<"bruteforce">>, all_alive, <<"bruteforce">>)
    /\ phase' = "http"
    /\ UNCHANGED <<pureVars, semVars, qualVars, raised, leadFile, leadQueue, lead, visited, sites, discoveries, clock,
                   gets, sem, inflight, dns, saved, savedSites>>

\* the brute-force batch_check_sites returns; Database.save
Save ==
    /\ phase = "http"
    /\ GatherOutcome(<<"bruteforce">>) # "pending"
    /\ IF GatherOutcome(<<"bruteforce">>) = "raised"
       THEN phase' = "aborted" /\ raised' = "TaskError" /\ UNCHANGED <<saved, savedSites>>
       ELSE phase' = "done" /\ saved' = TRUE /\ savedSites' = sites /\ UNCHANGED raised
    /\ UNCHANGED <<pureVars, semVars, qualVars, leadFile, leadQueue, lead, tasks, visited, sites, discoveries,
                   clock, gets, sem, inflight, dns>>

Next ==
    \/ LeadBegin
    \/ LeadResponse
    \/ LeadGatherDone
    \/ Phase1Begin
    \/ \E t \in tasks : CrawlStart(t)
    \/ \E t \in tasks : CrawlResponse(t)
    \/ \E t \in tasks : CrawlGatherDone(t)
    \/ \E t \in tasks : CheckStart(t)
    \/ \E t \in tasks : CheckResponse(t)
    \/ Phase2Begin
    \/ \E d \in DOMAIN dns : DnsResolve(d)
    \/ DnsDone
    \/ Save

Spec == Init /\ [][Next]_vars

(* ---------------- crawler.py: fetch and the semaphore ----------------- *)

\* no run of the crawler
NoRun ==
    /\ leadFile = [exists |-> FALSE, parses |-> FALSE, lead_sources |-> <<>>]
    /\ leadQueue = <<>> /\ lead = Idle /\ phase = "none" /\ raised = ""
    /\ tasks = {} /\ visited = {} /\ sites = <<>> /\ discoveries = {}
    /\ clock = 1 /\ gets = <<>> /\ dns = <<>> /\ saved = FALSE /\ savedSites = <<>>

InitSem == NoCall /\ NoLoad /\ NoQuality /\ NoRun /\ sem = SEM_LIMIT /\ inflight = 0

\* a task calls fetch: "async with self.sem" is entered at once when the
\* semaphore is free, and the task is suspended in acquire when it is not
FetchEnter_bug ==
    /\ fetchCalls < MaxFetchCalls
    /\ fetchCalls' = fetchCalls + 1
    /\ inflight' = inflight + 1
    /\ UNCHANGED <<sem, semWaiters, semWoken, pureVars, runVars, qualVars>>

FetchEnter ==
    /\ fetchCalls < MaxFetchCalls
    /\ fetchCalls' = fetchCalls + 1
    /\ IF sem > 0
       THEN sem' = sem - 1 /\ inflight' = inflight + 1 /\ UNCHANGED semWaiters
       ELSE semWaiters' = semWaiters + 1 /\ UNCHANGED <<sem, inflight>>
    /\ UNCHANGED <<semWoken, pureVars, runVars, qualVars>>

\* the GET of a call is over (a response, a timeout or an error): the call
\* leaves "async with self.sem"; release hands the semaphore to the first
\* suspended call when there is one
FetchLeave ==
    /\ inflight > 0
    /\ inflight' = inflight - 1
    /\ IF semWaiters > 0
       THEN semWaiters' = semWaiters - 1 /\ semWoken' = semWoken + 1 /\ UNCHANGED sem
       ELSE sem' = sem + 1 /\ UNCHANGED <<semWaiters, semWoken>>
    /\ UNCHANGED <<fetchCalls, pureVars, runVars, qualVars>>

\* a call that was handed the semaphore resumes and issues its GET
FetchResume ==
    /\ semWoken > 0
    /\ semWoken' = semWoken - 1
    /\ inflight' = inflight + 1
    /\ UNCHANGED <<sem, semWaiters, fetchCalls, pureVars, runVars, qualVars>>

NextSem == FetchEnter \/ FetchLeave \/ FetchResume

SpecSem == InitSem /\ [][NextSem]_vars

(* ------------------ the functions applied to inputs ------------------- *)

NormalizeInputs == StrsUpTo(UrlChunks, MaxUrlLen)

HtmlInputs ==
    {h \in [len : {0, 499, 500, 4999, 5000},
            text : {<<>>, <<"parked">>, <<"Domain For Sale">>,
                    <<"GoDaddy", " ", "parked">>, <<"welcome">>},
            bodyChars : {0, 199, 200}, bodyWords : {0, 29, 30},
            scriptChars : {0, 300}, scriptWords : {0, 40},
            parseOk : BOOLEAN] :
        /\ h.bodyWords <= h.bodyChars
        /\ h.scriptWords <= h.scriptChars
        /\ h.bodyChars + h.scriptChars + StrLen(h.text) <= h.len}

ScoreDomains ==
    {<<"moltbook.com">>, <<"www.", "moltbook.com">>, <<"WWW.", "moltbook.com">>,
     <<"crabs.com">>, <<"agenthub.io">>, <<"example.org">>,
     <<"mailto:", "example.org">>}
ScoreTitles == {<<>>, <<"Moltbook">>, <<"Crab Shack">>, <<"AI agent marketplace">>}
ScoreDescriptions(domain) ==
    {<<>>, <<"Social network for molt agents">>,
     <<"We sell live crabs, shipped nationwide">>, <<"nice generic site">>,
     <<"A directory of many fine things">>, <<"Coming Soon">>,
     domain, <<" ">> \o domain, <<"Discovered at", " ">> \o domain}
ScoreNotes == {<<>>, <<"do not use">>}
ExcludedSets == {{}, {<<"crabs.com">>}, {<<"moltbook.com">>}}
AggregatorSets == {{}, {<<"WWW.", "agenthub.io">>}}

InitPure ==
    /\ NoLoad /\ NoQuality /\ NoRun /\ sem = SEM_LIMIT /\ inflight = 0
    /\ pDone = FALSE
    /\ pOut = <<>>
    /\ \/ \E u \in NormalizeInputs : pIn = [fn |-> "normalize", url |-> u]
       \/ \E o \in Outcomes("<html>") : pIn = [fn |-> "fetch", outcome |-> o]
       \/ \E h \in HtmlInputs : pIn = [fn |-> "is_parked", html |-> h]
       \/ \E d \in ScoreDomains, t \in ScoreTitles, n \in ScoreNotes,
             e \in ExcludedSets, a \in AggregatorSets :
            \E ds \in ScoreDescriptions(d) :
                pIn = [fn |-> "calculate", domain |-> d, title |-> t,
                       description |-> ds, notes |-> n, excluded |-> e,
                       aggregators |-> a]

CallNormalize ==
    /\ ~pDone /\ pIn.fn = "normalize"
    /\ pOut' = normalize(pIn.url)
    /\ pDone' = TRUE
    /\ UNCHANGED <<pIn, semVars, runVars, qualVars, sem, inflight>>

CallFetch ==
    /\ ~pDone /\ pIn.fn = "fetch"
    /\ pOut' = FetchResult(pIn.outcome)
    /\ pDone' = TRUE
    /\ UNCHANGED <<pIn, semVars, runVars, qualVars, sem, inflight>>

CallIsParked ==
    /\ ~pDone /\ pIn.fn = "is_parked"
    /\ pOut' = is_parked(pIn.html)
    /\ pDone' = TRUE
    /\ UNCHANGED <<pIn, semVars, runVars, qualVars, sem, inflight>>

CallCalculate ==
    /\ ~pDone /\ pIn.fn = "calculate"
    /\ pOut' = [relevance |-> calculate_relevance(pIn.domain, pIn.title,
                                 pIn.description, pIn.excluded, pIn.aggregators),
                trust |-> calculate_trust(pIn.domain, pIn.title, pIn.description,
                                 pIn.notes, pIn.excluded, pIn.aggregators)]
    /\ pDone' = TRUE
    /\ UNCHANGED <<pIn, semVars, runVars, qualVars, sem, inflight>>

NextPure == CallNormalize \/ CallFetch \/ CallIsParked \/ CallCalculate

SpecPure == InitPure /\ [][NextPure]_vars

(* ------------- quality.py and dedupe.py: the stored files ------------- *)

\* a record of portals.json; trust is "unset" while the record has no
\* 'trust' key, and relevance 0 while it has no 'relevance' key
Portal(url, name, description, notes, verified) ==
    [url |-> url, name |-> name, description |-> description, notes |-> notes,
     verified |-> verified, trust |-> "unset", relevance |-> 0, featured |-> FALSE]

\* open(PORTALS_JSON) and json.load: the exception raised, "" when none
LoadPortalsRaises(file) ==
    IF ~file.exists THEN "FileNotFoundError"
    ELSE IF ~file.parses THEN "JSONDecodeError" ELSE ""

\* load_excluded_domains and load_aggregator_featured: a missing file gives
\* the empty default, a file that does not parse raises
LoadExcludedRaises(file) ==
    IF file.exists /\ ~file.parses THEN "JSONDecodeError" ELSE ""
load_excluded_domains(file) == IF file.exists THEN file.excluded ELSE <<>>
FeaturedDomains(file) == IF file.exists THEN file.aggregators ELSE {}

\* save_excluded_domains: the file holds 'excluded' and 'updated' only
save_excluded_domains(excluded) ==
    [exists |-> TRUE, parses |-> TRUE, excluded |-> excluded,
     lead_sources |-> <<>>, aggregators |-> {}]

\* log_audit: the audit log is read (a log that does not parse raises), one
\* entry is appended and the log is written
LogAuditRaises(file) ==
    IF file.exists /\ ~file.parses THEN "JSONDecodeError" ELSE ""
log_audit(file) ==
    [exists |-> TRUE, parses |-> TRUE,
     log |-> (IF file.exists THEN file.log ELSE 0) + 1]
AuditRoom == ~auditFile.exists \/ ~auditFile.parses \/ auditFile.log < MaxAuditLog

\* url.replace('https://', '').replace('http://', '').split('/')[0]
RECURSIVE RemoveScheme(_)
RemoveScheme(url) ==
    IF url = <<>> THEN <<>>
    ELSE IF Len(url) >= 2 /\ url[1] = "https" /\ url[2] = "://"
         THEN RemoveScheme(Tail(Tail(url)))
    ELSE <<Head(url)>> \o RemoveScheme(Tail(url))
RECURSIVE BeforeSlash(_)
BeforeSlash(s) ==
    IF s = <<>> \/ Head(s) = "/p" THEN <<>>
    ELSE IF Head(s) = "://" THEN <<":">>
    ELSE <<Head(s)>> \o BeforeSlash(Tail(s))
PortalDomain(url) == BeforeSlash(RemoveScheme(url))

(* ---------------------- quality.py: the commands ---------------------- *)

\* the false-positive test against the exclusion file as it is stored
IsFalsePositive(domain, p, file) ==
    is_false_positive(domain, p.name, p.description,
                      DOMAIN load_excluded_domains(file), FeaturedDomains(file))

\* score_portals on one record: the scores are computed, a truthy
\* 'verified' overrides the trust, then 'relevance' and 'trust' are set
ScoreOne_bug(p, file) ==
    LET domain == PortalDomain(p.url)
        excluded == DOMAIN load_excluded_domains(file)
        rel == calculate_relevance(domain, p.name, p.description, excluded,
                                   FeaturedDomains(file))
        trust == IF "FALSE_POSITIVE" \in rel[2] THEN "untrusted"
                 ELSE IF p.verified THEN "verified"
                 ELSE calculate_trust(domain, p.name, p.description, p.notes,
                                      excluded, FeaturedDomains(file))
    IN  [p EXCEPT !.relevance = rel[1], !.trust = trust]

ScoreOne(p, file) ==
    LET domain == PortalDomain(p.url)
        excluded == DOMAIN load_excluded_domains(file)
        rel == calculate_relevance(domain, p.name, p.description, excluded,
                                   FeaturedDomains(file))
        trust == IF p.verified THEN "verified"
                 ELSE IF "FALSE_POSITIVE" \in rel[2] THEN "untrusted"
                 ELSE calculate_trust(domain, p.name, p.description, p.notes,
                                      excluded, FeaturedDomains(file))
    IN  [p EXCEPT !.relevance = rel[1], !.trust = trust]

\* mark_featured on one record
MarkOne_bug(p) ==
    [p EXCEPT !.featured = p.verified \/ (p.trust = "high" /\ p.relevance >= 60)]

MarkOne(p) ==
    IF (p.verified \/ (p.trust = "high" /\ p.relevance >= 60)) /\ ~p.featured
    THEN [p EXCEPT !.featured = TRUE] ELSE p

Ended(op, arg, exc) == qOp' = [op |-> op, arg |-> arg, raised |-> exc]

\* the state no maintenance command touches
QFrame == UNCHANGED <<pureVars, semVars, crawlVars, sem, inflight>>

\* score_portals: it raises when portals.json is missing or does not parse,
\* and when the first record is scored against an exclusion file that does
\* not parse; else every record is scored and the file written
ScorePortals ==
    /\ LET e1 == LoadPortalsRaises(portalsFile)
           e2 == IF portalsFile.portals # <<>> THEN LoadExcludedRaises(leadFile) ELSE ""
       IN  IF e1 # "" THEN Ended("score_portals", <<>>, e1) /\ UNCHANGED portalsFile
           ELSE IF e2 # "" THEN Ended("score_portals", <<>>, e2) /\ UNCHANGED portalsFile
           ELSE /\ portalsFile' = [portalsFile EXCEPT !.portals =
                                     [i \in DOMAIN @ |-> ScoreOne(@[i], leadFile)]]
                /\ Ended("score_portals", <<>>, "")
    /\ UNCHANGED <<leadFile, leadQueue, auditFile>>
    /\ QFrame

\* mark_featured
MarkFeatured ==
    /\ LET e1 == LoadPortalsRaises(portalsFile)
       IN  IF e1 # "" THEN Ended("mark_featured", <<>>, e1) /\ UNCHANGED portalsFile
           ELSE /\ portalsFile' = [portalsFile EXCEPT !.portals =
                                     [i \in DOMAIN @ |-> MarkOne(@[i])]]
                /\ Ended("mark_featured", <<>>, "")
    /\ UNCHANGED <<leadFile, leadQueue, auditFile>>
    /\ QFrame

\* cleanup_false_positives: the records is_false_positive accepts are
\* dropped and the file written; when some were dropped log_audit runs
CleanupFalsePositives ==
    /\ LET e1 == LoadPortalsRaises(portalsFile)
           e2 == IF portalsFile.portals # <<>> THEN LoadExcludedRaises(leadFile) ELSE ""
           Keep(q) == ~IsFalsePositive(ReplaceWww(PortalDomain(q.url)), q, leadFile)
           cleaned == SelectSeq(portalsFile.portals, Keep)
       IN  IF e1 # "" THEN Ended("cleanup", <<>>, e1) /\ UNCHANGED <<portalsFile, auditFile>>
           ELSE IF e2 # "" THEN Ended("cleanup", <<>>, e2) /\ UNCHANGED <<portalsFile, auditFile>>
           ELSE /\ portalsFile' = [portalsFile EXCEPT !.portals = cleaned]
                /\ IF cleaned = portalsFile.portals
                   THEN Ended("cleanup", <<>>, "") /\ UNCHANGED auditFile
                   ELSE IF LogAuditRaises(auditFile) # ""
                   THEN Ended("cleanup", <<>>, LogAuditRaises(auditFile))
                        /\ UNCHANGED auditFile
                   ELSE /\ AuditRoom
                        /\ auditFile' = log_audit(auditFile)
                        /\ Ended("cleanup", <<>>, "")
    /\ UNCHANGED <<leadFile, leadQueue>>
    /\ QFrame

\* exclude_site(domain, reason): the record of the domain as it is spelled
\* is set, the file saved and the action logged
ExcludeSite_bug(domain) ==
    /\ LET e2 == LoadExcludedRaises(leadFile)
           rec == [reason |-> "manual", category |-> "other", checked |-> clock]
       IN  IF e2 # "" THEN Ended("exclude_site", domain, e2) /\ UNCHANGED <<leadFile, auditFile>>
           ELSE /\ leadFile' = save_excluded_domains(domain :> rec)
                /\ IF LogAuditRaises(auditFile) # ""
                   THEN Ended("exclude_site", domain, LogAuditRaises(auditFile))
                        /\ UNCHANGED auditFile
                   ELSE /\ AuditRoom
                        /\ auditFile' = log_audit(auditFile)
                        /\ Ended("exclude_site", domain, "")
    /\ UNCHANGED <<portalsFile, leadQueue>>
    /\ QFrame

ExcludeSite(domain) ==
    /\ LET e2 == LoadExcludedRaises(leadFile)
           old == load_excluded_domains(leadFile)
           rec == [reason |-> "manual", category |-> "other", checked |-> clock]
           excluded == [k \in DOMAIN old \cup {domain} |->
                           IF k = domain THEN rec ELSE old[k]]
       IN  IF e2 # "" THEN Ended("exclude_site", domain, e2) /\ UNCHANGED <<leadFile, auditFile>>
           ELSE /\ leadFile' = save_excluded_domains(excluded)
                /\ IF LogAuditRaises(auditFile) # ""
                   THEN Ended("exclude_site", domain, LogAuditRaises(auditFile))
                        /\ UNCHANGED auditFile
                   ELSE /\ AuditRoom
                        /\ auditFile' = log_audit(auditFile)
                        /\ Ended("exclude_site", domain, "")
    /\ UNCHANGED <<portalsFile, leadQueue>>
    /\ QFrame

\* the crawler's use of the exclusion file: load_lead_sources at the start
\* of phase 0
LoadLeadSources ==
    /\ leadQueue' = load_lead_sources(leadFile)
    /\ Ended("load_lead_sources", <<>>, "")
    /\ UNCHANGED <<leadFile, portalsFile, auditFile>>
    /\ QFrame

(* ------------------------------ dedupe.py ----------------------------- *)

\* url.split('//')[1].split('/')[0].replace('www.', '').lower(); the split
\* at '//' raises IndexError for a URL without '//'
RECURSIVE AfterSlashes(_)
AfterSlashes(url) ==
    IF url = <<>> THEN <<>>
    ELSE IF Head(url) = "://" THEN Tail(url) ELSE AfterSlashes(Tail(url))
DedupeDomain(url) == LowerStr(ReplaceWww(BeforeSlash(AfterSlashes(url))))

\* the domain as one string, for the lookup in KNOWN_DIFFERENT
DomainString(url) ==
    LET d == DedupeDomain(url) IN IF Len(d) = 1 THEN d[1] ELSE ""

\* get_base_name and get_tld: the domain is cut at the TLD it ends with
get_base_name(url) ==
    LET d == DedupeDomain(url)
    IN  IF d = <<>> THEN <<>>
        ELSE SubSeq(d, 1, Len(d) - 1) \o <<SplitTld(d[Len(d)])[1]>>
get_tld(url) ==
    LET d == DedupeDomain(url)
    IN  IF d = <<>> THEN "" ELSE SplitTld(d[Len(d)])[2]

trust_bonus(trust) ==
    CASE trust = "verified" -> 100
      [] trust = "high" -> 50
      [] trust = "medium" -> 25
      [] trust = "untrusted" -> 0 - 50
      [] OTHER -> 0

score_portal(p) ==
    LET tld == get_tld(p.url)
        desc == p.description
    IN  (IF tld \in DOMAIN TLD_PRIORITY THEN TLD_PRIORITY[tld] ELSE 20)
        + p.relevance
        + trust_bonus(p.trust)
        + (IF desc # <<>> /\ ~Contains("Parked", desc) /\ ~Contains("Hostinger", desc)
           THEN 20 ELSE 0)
        + (IF p.featured THEN 30 ELSE 0)

is_known_different(url1, url2) ==
    \/ <<DomainString(url1), DomainString(url2)>> \in KNOWN_DIFFERENT
    \/ <<DomainString(url2), DomainString(url1)>> \in KNOWN_DIFFERENT

\* find_duplicates on the stored list: the positions of the records it
\* returns.  In every group of two or more records with one base name, not
\* all pairwise known different, best is the first record of the highest
\* score; every other record that is not known different from best and is
\* more than 30 below it, or of trust low or untrusted, is returned.
find_duplicates(portals) ==
    LET Group(i) == {j \in DOMAIN portals :
                        get_base_name(portals[j].url) = get_base_name(portals[i].url)}
        AllDifferent(G) ==
            \A i, j \in G : i < j => is_known_different(portals[i].url, portals[j].url)
        Best(G) ==
            CHOOSE b \in G :
                \A j \in G : \/ score_portal(portals[j]) < score_portal(portals[b])
                             \/ (score_portal(portals[j]) = score_portal(portals[b])
                                    /\ b <= j)
    IN  {i \in DOMAIN portals :
            LET G == Group(i)
            IN  /\ Cardinality(G) > 1
                /\ ~AllDifferent(G)
                /\ i # Best(G)
                /\ ~is_known_different(portals[Best(G)].url, portals[i].url)
                /\ \/ score_portal(portals[i]) < score_portal(portals[Best(G)]) - 30
                   \/ portals[i].trust \in {"low", "untrusted"}}

\* dedupe(dry_run), from __main__ with or without --apply
Dedupe_bug(dry_run) ==
    /\ LET e1 == LoadPortalsRaises(portalsFile)
           arg == IF dry_run THEN <<>> ELSE <<"--apply">>
           to_remove == find_duplicates(portalsFile.portals)
           remove_urls == {portalsFile.portals[i].url : i \in to_remove}
           Stays(q) == q.url \notin remove_urls
       IN  IF e1 # "" THEN Ended("dedupe", arg, e1) /\ UNCHANGED portalsFile
           ELSE /\ portalsFile' = [portalsFile EXCEPT !.portals = SelectSeq(@, Stays)]
                /\ Ended("dedupe", arg, "")
    /\ UNCHANGED <<leadFile, leadQueue, auditFile>>
    /\ QFrame

Dedupe(dry_run) ==
    /\ LET e1 == LoadPortalsRaises(portalsFile)
           arg == IF dry_run THEN <<>> ELSE <<"--apply">>
           to_remove == find_duplicates(portalsFile.portals)
           remove_urls == {portalsFile.portals[i].url : i \in to_remove}
           Stays(q) == q.url \notin remove_urls
       IN  IF e1 # "" THEN Ended("dedupe", arg, e1) /\ UNCHANGED portalsFile
           ELSE IF to_remove = {} \/ dry_run
           THEN Ended("dedupe", arg, "") /\ UNCHANGED portalsFile
           ELSE /\ portalsFile' = [portalsFile EXCEPT !.portals = SelectSeq(@, Stays)]
                /\ Ended("dedupe", arg, "")
    /\ UNCHANGED <<leadFile, leadQueue, auditFile>>
    /\ QFrame

(* ------------------- the maintenance commands, run -------------------- *)

Moltbook(host, verified) ==
    Portal(Https \o host, <<"Moltbook">>, <<"Social network for molt agents">>,
           <<>>, verified)

\* the lists portals.json holds at the start, before any scoring, with the
\* records marked verified by hand; the last list has one URL twice
PortalLists ==
    {<<Moltbook(<<"moltbook.io">>, v), Moltbook(<<"moltbook.com">>, FALSE),
       Moltbook(<<"moltbook.town">>, FALSE)>> : v \in BOOLEAN}
    \cup
    {<<Portal(Https \o <<"crabs.com">>, <<"Crab Shack">>,
              <<"We sell live crabs, shipped nationwide">>, <<>>, v[1]),
       Portal(Https \o <<"Example.org">>, <<"AI agent marketplace">>,
              <<"A directory of many fine things">>, <<"do not use">>, v[2]),
       Moltbook(<<"www.", "moltbook.com", "/p">>, FALSE)>> :
         v \in {<<FALSE, FALSE>>, <<TRUE, FALSE>>, <<FALSE, TRUE>>}}
    \cup
    {<<Moltbook(<<"moltbook.com">>, TRUE), Moltbook(<<"moltbook.com">>, FALSE)>>}

PortalsFiles ==
    {[exists |-> FALSE, parses |-> FALSE, portals |-> <<>>],
     [exists |-> TRUE, parses |-> FALSE, portals |-> <<>>]}
    \cup {[exists |-> TRUE, parses |-> TRUE, portals |-> l] : l \in PortalLists}

Imported == [reason |-> "imported", category |-> "other", checked |-> 0]

\* excluded_sites.json at the start: missing, not parsing, with lead sources
\* and aggregators but no exclusion, or with exclusions
ExclusionFiles ==
    {[exists |-> FALSE, parses |-> FALSE, excluded |-> <<>>, lead_sources |-> <<>>,
      aggregators |-> {}],
     [exists |-> TRUE, parses |-> FALSE, excluded |-> <<>>, lead_sources |-> <<>>,
      aggregators |-> {}],
     [exists |-> TRUE, parses |-> TRUE, excluded |-> <<>>,
      lead_sources |-> <<LeadEntry("claw.io", Https \o <<"claw.io">>, TRUE)>>,
      aggregators |-> {<<"WWW.", "agenthub.io">>}],
     [exists |-> TRUE, parses |-> TRUE,
      excluded |-> (<<"crabs.com">> :> Imported) @@ (<<"moltbook.com">> :> Imported),
      lead_sources |-> <<>>, aggregators |-> {}]}

AuditFiles ==
    {[exists |-> FALSE, parses |-> FALSE, log |-> 0],
     [exists |-> TRUE, parses |-> FALSE, log |-> 0],
     [exists |-> TRUE, parses |-> TRUE, log |-> 0]}

\* the domains exclude_site is called with
ExcludeArgs == {<<"moltbook.com">>, <<"Example.org">>}

InitQuality ==
    /\ NoCall /\ NoLoad /\ sem = SEM_LIMIT /\ inflight = 0
    /\ leadFile \in ExclusionFiles
    /\ leadQueue = <<>> /\ lead = Idle /\ phase = "none" /\ raised = ""
    /\ tasks = {} /\ visited = {} /\ sites = <<>> /\ discoveries = {}
    /\ clock = 1 /\ gets = <<>> /\ dns = <<>> /\ saved = FALSE /\ savedSites = <<>>
    /\ portalsFile \in PortalsFiles
    /\ auditFile \in AuditFiles
    /\ qOp = [op |-> "none", arg |-> <<>>, raised |-> ""]

NextQuality ==
    \/ ScorePortals
    \/ MarkFeatured
    \/ CleanupFalsePositives
    \/ \E d \in ExcludeArgs : ExcludeSite(d)
    \/ \E dry_run \in BOOLEAN : Dedupe(dry_run)
    \/ LoadLeadSources

SpecQuality == InitQuality /\ [][NextQuality]_vars

(* ------------------------------- claims ------------------------------- *)

Returned(fn) == pDone /\ pIn.fn = fn

\* C2 (as amended): fetch returns (body, true) for status 200 once the body is
\* read, (None, true) for every other status below 500, and (None, false)
\* for a timeout, a connection error, a failed read of the body or a status
\* of 500 and above.
C2_FetchResultBelow500 ==
    Returned("fetch") =>
        LET o == pIn.outcome
            ok == o.kind = "response"
        IN  /\ (ok /\ o.status = 200 /\ o.readOk) => pOut = <<o.body, TRUE>>
            /\ (ok /\ o.status # 200 /\ o.status < 500) => pOut = <<None, TRUE>>
            /\ (~ok \/ o.status >= 500 \/ (o.status = 200 /\ ~o.readOk))
                   => pOut = <<None, FALSE>>

\* C2 witness: a 204 response has been answered (None, true).
C2_Witness ==
    Returned("fetch") /\ pIn.outcome.kind = "response"
        /\ pIn.outcome.status = 204 /\ pOut = <<None, TRUE>>

\* C2 (as claimed): (body, true) for 200, (None, true) for 300..499,
\* (None, false) for a timeout, a connection error or a status >= 500, and
\* no other status yields alive = true.
C2_OnlyListedStatusesAlive ==
    Returned("fetch") =>
        LET o == pIn.outcome
            ok == o.kind = "response"
        IN  /\ (ok /\ o.status = 200 /\ o.readOk) => pOut = <<o.body, TRUE>>
            /\ (ok /\ o.status \in 300..499) => pOut = <<None, TRUE>>
            /\ (~ok \/ o.status >= 500) => pOut = <<None, FALSE>>
            /\ pOut[2] => (ok /\ (o.status = 200 \/ o.status \in 300..499))

\* C7 (as claimed): normalize is idempotent,
\* normalize(normalize(x)) = normalize(x) for every input x.
C7_NormalizeIdempotent ==
    Returned("normalize") => normalize(pOut) = pOut

\* C8 (as amended): is_parked follows the cascade: true under 500; else true
\* with two or more distinct indicator phrases; else, when BeautifulSoup
\* parses the body, true when the visible text (script, style and noscript
\* removed) is under 200 characters or 30 words; else true with exactly one
\* indicator and under 5000; otherwise false. A body BeautifulSoup rejects
\* skips the test of the visible text.
C8_IsParkedCascade ==
    Returned("is_parked") =>
        LET h == pIn.html
            hits == Cardinality({p \in PARKED_INDICATORS :
                                    Contains(p, LowerStr(h.text))})
        IN  pOut = IF h.len < 500 THEN TRUE
                   ELSE IF hits >= 2 THEN TRUE
                   ELSE IF h.parseOk /\ (h.bodyChars < 200 \/ h.bodyWords < 30)
                        THEN TRUE
                   ELSE IF hits = 1 /\ h.len < 5000 THEN TRUE
                   ELSE FALSE

\* C8 witness: a body of 500 or more with one indicator and enough visible
\* text, found parked because it is under 5000.
C8_Witness ==
    /\ Returned("is_parked") /\ pOut = TRUE
    /\ pIn.html.len >= 500 /\ pIn.html.len < 5000
    /\ ParkedCount(pIn.html) = 1
    /\ pIn.html.bodyChars >= 200 /\ pIn.html.bodyWords >= 30
    /\ pIn.html.scriptChars > 0

\* C8 (as claimed): the cascade for every input, the test of the visible
\* text applied to every body of 500 or more with fewer than two indicators.
C8_CascadeForEveryInput ==
    Returned("is_parked") =>
        LET h == pIn.html
        IN  pOut = IF h.len < 500 THEN TRUE
                   ELSE IF ParkedCount(h) >= 2 THEN TRUE
                   ELSE IF h.bodyChars < 200 \/ h.bodyWords < 30 THEN TRUE
                   ELSE IF ParkedCount(h) = 1 /\ h.len < 5000 THEN TRUE
                   ELSE FALSE

\* C9: the score of calculate_relevance is an integer in 0..100.
C9_RelevanceInRange ==
    Returned("calculate") => pOut.relevance[1] \in 0..100

\* C9 witness: a site that is no false positive, whose keyword score is
\* below the penalty for a short description, scores 0.
C9_Witness ==
    /\ Returned("calculate")
    /\ ~is_false_positive(pIn.domain, pIn.title, pIn.description, pIn.excluded,
                          pIn.aggregators)
    /\ StrLen(pIn.description) < 20
    /\ pOut.relevance = <<0, {}>>

\* C10: for an input that is_false_positive classifies as a false positive,
\* calculate_relevance returns (0, [FALSE_POSITIVE]) and calculate_trust
\* returns untrusted.
C10_FalsePositiveScoresZero ==
    (Returned("calculate")
        /\ is_false_positive(pIn.domain, pIn.title, pIn.description,
                             pIn.excluded, pIn.aggregators))
    => /\ pOut.relevance = <<0, {"FALSE_POSITIVE"}>>
       /\ pOut.trust = "untrusted"

\* C10 witness: crabs.com with the wrong-industry phrase 'shipped nationwide'
\* has been scored 0 and untrusted.
C10_Witness ==
    /\ Returned("calculate")
    /\ pIn.domain = <<"crabs.com">>
    /\ pIn.description = <<"We sell live crabs, shipped nationwide">>
    /\ pIn.excluded = {} /\ pIn.aggregators = {}
    /\ pOut.relevance = <<0, {"FALSE_POSITIVE"}>>
    /\ pOut.trust = "untrusted"

\* C1 (as claimed): within one run no domain is fetched over HTTP more than
\* once.
C1_AtMostOneGetPerDomain ==
    \A d \in DOMAIN gets : gets[d] <= 1

\* C3: at most 500 GET requests are in flight, whatever number of tasks has
\* called fetch.
C3_InFlightAtMost500 ==
    inflight <= 500

\* C3 witness: 500 requests are in flight and further calls are suspended.
C3_Witness ==
    inflight = 500 /\ semWaiters > 0 /\ fetchCalls > 500

\* C4: a gather returns only when each of its tasks has returned or raised,
\* whatever happened to the others: the crawl tasks of the seeds, the
\* check_one tasks of a batch and the resolutions of a DNS batch; what a
\* task added to the registry stays there and is saved; and the failure of a
\* task never leaves run.
C4_GatherToleratesFailures ==
    /\ phase \in {"dns", "http", "done"} =>
            \A t \in tasks : t.owner = <<"run">> => Finished(t)
    /\ \A t \in tasks : (t.kind = "crawl" /\ Finished(t)) =>
            \A c \in tasks : c.owner = <<"crawl">> \o t.url => Finished(c)
    /\ \A c \in tasks :
            (c.owner[1] = "lead"
                /\ ~(phase = "phase0" /\ lead.pc = "gather" /\ c.owner[2] = lead.name))
            => Finished(c)
    /\ phase \in {"http", "done"} => \A d \in DOMAIN dns : dns[d] # "pending"
    /\ phase = "done" => \A c \in tasks : Finished(c)
    /\ \A t \in tasks : t.added => t.domain \in DOMAIN sites
    /\ phase = "done" => \A t \in tasks : t.added => t.domain \in DOMAIN savedSites
    /\ raised # "TaskError"

\* C4 witness: the run has saved, one seed crawl raised, and the other seed
\* crawl and a check_one task ran to their end and are in the saved registry.
C4_Witness ==
    /\ phase = "done"
    /\ \E t1, t2, c \in tasks :
        /\ t1.kind = "crawl" /\ t1.pc = "failed"
        /\ t2.kind = "crawl" /\ t2.pc = "done" /\ t2.added
        /\ t2.domain \in DOMAIN savedSites
        /\ c.kind = "check" /\ c.added /\ c.domain \in DOMAIN savedSites

\* C5 (as claimed): no run aborts before Database.save, whatever the fetches,
\* the resolutions, the pages and the lead-source entries are.
C5_RunNeverAborts ==
    phase # "aborted"

\* a normalized domain: no scheme, lower case, no leading "www."
IsNormalizedDomain(d) ==
    /\ ~HasSchemeSep(d)
    /\ LowerStr(d) = d
    /\ ~(d # <<>> /\ d[1] = "www.")

\* C6 (as claimed): every key of the sites map and every member of the
\* visited set is a normalized domain.
C6_KeysAreNormalized ==
    \A d \in (DOMAIN sites) \cup visited : IsNormalizedDomain(d)

\* C15: the first_seen of a site record never changes once the record is
\* created, whatever Database.add is called with for its domain afterwards.
C15_FirstSeenImmutable ==
    [][\A d \in DOMAIN sites :
          d \in DOMAIN sites' /\ sites'[d].first_seen = sites[d].first_seen]_vars

\* C15 witness: a record of the registry of an earlier run has been updated
\* by a check_one of this run and keeps its first_seen.
C15_Witness ==
    \E t \in tasks :
        /\ t.added /\ t.domain \in DOMAIN sites
        /\ sites[t.domain].first_seen = 0 /\ clock > 1
        /\ sites[t.domain].has_content = "True"

\* C19: the candidates of phase 2 are exactly the names base+suffix+'.'+tld
\* that are neither in the registry nor in the visited set at that moment.
C19_CandidatesAreProductMinusKnown ==
    phase = "dns" =>
        DOMAIN dns = {FormatCandidate(b, s, tld) :
                         b \in BASES, s \in SUFFIXES, tld \in TLDS}
                       \ (DOMAIN sites \cup visited)

\* C19 witness: molt.com was visited in phase 1 and is no candidate, while
\* moltx.com is one.
C19_Witness ==
    /\ phase = "dns"
    /\ <<"molt.com">> \in visited /\ <<"molt.com">> \notin DOMAIN sites
    /\ DOMAIN dns = {<<"moltx.com">>}

\* C20 (as claimed): a crawl or check_one task whose fetch has completed and
\* that returns has written a record for its domain, has_content false
\* when there was no body.
C20_FetchedThenRecorded ==
    [][\A t \in tasks : \A u \in tasks' :
          (t.pc = "fetching" /\ u.pc = "done" /\ u.kind = t.kind
              /\ u.owner = t.owner /\ u.domain = t.domain)
          => t.domain \in DOMAIN sites']_vars

Portals == {portalsFile.portals[i] : i \in DOMAIN portalsFile.portals}
Did(op) == qOp.op = op /\ qOp.raised = ""

\* C11 (as claimed): a domain with an exclusion record is a false positive
\* for every title and description.
C11_ExcludedIsFalsePositive ==
    LoadExcludedRaises(leadFile) = "" =>
        \A k \in DOMAIN load_excluded_domains(leadFile) :
            \A t \in ScoreTitles, d \in ScoreDescriptions(k) :
                is_false_positive(k, t, d, DOMAIN load_excluded_domains(leadFile),
                                  FeaturedDomains(leadFile))

\* C12: once scored, a record with verified = true has trust 'verified',
\* whatever its relevance, its red flags and its false-positive class, and
\* keeps it through mark_featured, cleanup and dedupe.
C12_VerifiedTrust ==
    \A q \in Portals : (q.verified /\ q.trust # "unset") => q.trust = "verified"

\* C12 witness: a verified record classified a false positive (relevance 0)
\* has trust 'verified' after score_portals and a later mark_featured.
C12_Witness ==
    /\ Did("mark_featured")
    /\ \E q \in Portals :
          /\ q.verified /\ q.trust = "verified" /\ q.relevance = 0 /\ q.featured
          /\ IsFalsePositive(PortalDomain(q.url), q, leadFile)

\* C13 (as claimed): the dedup pass never flags both members of a pair of
\* KNOWN_DIFFERENT.
C13_KnownDifferentPairKept ==
    (Did("dedupe") /\ qOp.arg = <<>>) =>
        \A i, j \in find_duplicates(portalsFile.portals) :
            ~is_known_different(portalsFile.portals[i].url, portalsFile.portals[j].url)

\* C14: dedupe in its default dry-run mode leaves the stored portal list as
\* it was, whatever find_duplicates reports.
C14_DryRunLeavesFile ==
    [][(qOp'.op = "dedupe" /\ qOp'.arg = <<>>) => portalsFile' = portalsFile]_vars

\* C14 witness: a dry run has reported duplicates and they are still stored.
C14_Witness ==
    /\ Did("dedupe") /\ qOp.arg = <<>>
    /\ find_duplicates(portalsFile.portals) # {}

\* C16: a record that has featured = true and stays in the registry keeps
\* it through every command.  The records of one URL are followed in their
\* order: a command removes all of them or none.
C16_FeaturedMonotonic ==
    [][\A q \in Portals :
          LET Same(r) == r.url = q.url
              old == SelectSeq(portalsFile.portals, Same)
              new == SelectSeq(portalsFile.portals', Same)
          IN  \/ new = <<>>
              \/ /\ Len(new) = Len(old)
                 /\ \A i \in DOMAIN old : old[i].featured => new[i].featured]_vars

\* C16 witness: a featured record was scored again after its exclusion, is
\* neither verified nor of high trust, and is still featured.
C16_Witness ==
    /\ Did("score_portals")
    /\ \E q \in Portals :
          q.featured /\ ~q.verified /\ q.trust = "untrusted" /\ q.relevance = 0

\* C17: no command removes an exclusion record, and a record changes only
\* by exclude_site called for its domain, which replaces it.
C17_ExclusionsKept ==
    [][LET old == load_excluded_domains(leadFile)
           new == load_excluded_domains(leadFile')
       IN  /\ DOMAIN old \subseteq DOMAIN new
           /\ \A k \in DOMAIN old :
                 new[k] # old[k] =>
                    (qOp'.op = "exclude_site" /\ qOp'.arg = k
                        /\ new[k].reason = "manual")]_vars

\* C17 witness: exclude_site has replaced the record of moltbook.com and
\* left that of crabs.com as it was loaded.
C17_Witness ==
    /\ Did("exclude_site") /\ qOp.arg = <<"moltbook.com">>
    /\ DOMAIN load_excluded_domains(leadFile) = {<<"crabs.com">>, <<"moltbook.com">>}
    /\ leadFile.excluded[<<"moltbook.com">>].reason = "manual"
    /\ leadFile.excluded[<<"crabs.com">>] = Imported

\* C18 (as claimed): no command ends with an error raised by the load of a
\* stored file that is missing or does not parse.
C18_LoadersNeverRaise ==
    qOp.raised = ""

\* C21 (as claimed): after a visit of a domain that has a registry record,
\* the record's alive, has_content and title are those the visit observed.
C21_RecordEqualsLatestVisit ==
    [][\A t \in tasks, u \in tasks' :
          (/\ t.pc = "fetching" /\ u.pc # "fetching" /\ u.kind = t.kind
           /\ u.owner = t.owner /\ u.domain = t.domain
           /\ t.domain \in DOMAIN sites)
          => /\ t.domain \in DOMAIN sites'
             /\ sites'[t.domain].alive = u.seen.alive
             /\ sites'[t.domain].has_content = u.seen.has_content
             /\ sites'[t.domain].title = u.seen.title]_vars

\* C22 (as claimed): a domain reached by a link and found to have content
\* (depth 1) has the interesting domains of its own page followed.
C22_ContentDomainsExpanded ==
    phase = "done" =>
        \A t \in tasks :
            (t.kind = "check" /\ t.source = <<"link">> /\ t.added
                /\ t.seen.has_content = "True")
            => \A d \in extract_domains(Web(HostOf(t.url)), t.url) :
                  is_interesting(d) => d \in visited

\* C23 (as claimed): from an expanded page at most 20 domains are followed,
\* and a domain is followed exactly when it holds a keyword and is not a
\* domain of the skip list.
C23_EligibleDomainsFollowed ==
    \A t \in tasks :
        (t.kind = "crawl" /\ t.added /\ t.seen.has_content = "True") =>
            LET eligible == {d \in extract_domains(Web(HostOf(t.url)), t.url) :
                                /\ \E k \in KEYWORDS : Contains(k, LowerStr(d))
                                /\ LowerStr(d) \notin {<<x>> : x \in SKIP}}
                followed == {u \in tasks : u.kind = "check"
                                              /\ u.owner = <<"crawl">> \o t.url}
            IN  /\ Cardinality(followed) <= 20
                /\ \A u \in followed : u.domain \in eligible
                /\ Cardinality(eligible) <= 20 =>
                      \A d \in eligible :
                          d \in visited \/ \E u \in followed : u.domain = d

\* C24 (as claimed): after dedupe is applied, every base-name group still
\* has a member with the top score of the group.
C24_TopScorerKept ==
    [][(qOp'.op = "dedupe" /\ qOp'.arg = <<"--apply">> /\ qOp'.raised = "") =>
          \A i \in DOMAIN portalsFile.portals :
              \E j \in DOMAIN portalsFile.portals' :
                  /\ get_base_name(portalsFile.portals'[j].url)
                        = get_base_name(portalsFile.portals[i].url)
                  /\ \A k \in DOMAIN portalsFile.portals :
                        get_base_name(portalsFile.portals[k].url)
                              = get_base_name(portalsFile.portals[i].url)
                        => score_portal(portalsFile.portals[k])
                              <= score_portal(portalsFile.portals'[j])]_vars

\* C25 (as claimed): exclude_site leaves the lead_sources and aggregators
\* sections of the exclusion file as they were.
C25_ExcludeKeepsOtherSections ==
    [][(qOp'.op = "exclude_site" /\ qOp'.raised = "") =>
          /\ load_lead_sources(leadFile') = load_lead_sources(leadFile)
          /\ FeaturedDomains(leadFile') = FeaturedDomains(leadFile)]_vars

====
